---- MODULE Spec2Model ----
(***************************************************************************)
(* VoiceLab backend: the TTS engine life cycle (backend/tts_engine.py),    *)
(* the mood effect chain (backend/audio_processing.py) and the voice bank  *)
(* (backend/voice_bank.py), as state machines.                             *)
(*                                                                         *)
(* Engine threads run one call at a time.  Every program-counter value is  *)
(* the line of tts_engine.py (status reads: of main.py) the thread is      *)
(* about to execute; attribute reads and writes that the code performs     *)
(* without the lock are separate steps.                                    *)
(***************************************************************************)
EXTENDS Integers, Sequences, FiniteSets, TLC

\* ---------------------------------------------------------------- bounds
Threads == {"t1", "t2"}
\* calls one thread makes, one after the other
MaxCalls == 2
\* stands for the 600 of `for _ in range(600)` (tts_engine.py:118)
PollCeiling == 3
\* messages str(e) of a failed primary load
Errors == {"e1", "e2"}

None == "None"
Ops == {"init", "ensure", "gen", "status"}

VARIABLES
    status,      \* TTSEngine._status
    backend,     \* TTSEngine._backend
    error_msg,   \* TTSEngine._error_msg
    tts,         \* TTSEngine._tts
    lock,        \* TTSEngine._lock: "free" or the holding thread
    pc,          \* per thread: the line it is at, or "idle"
    op,          \* per thread: the call it is running
    exc,         \* per thread: the exception e caught at line 98
    polls,       \* per thread: iterations of the loop of line 118 done
    result,      \* per thread: how its last call ended
    entry,       \* per thread: the status line 114 read
    snap,        \* per thread: the fields get_status has read
    calls,       \* per thread: calls started
    failmsg,     \* message of the latest primary failure
    outcome,     \* how the latest load attempt went: ok, fallback, nofallback
    dispatched,  \* backends some generate() call was dispatched to
    \* apply_mood (audio_processing.py), one call
    req,         \* the function called and its input: samples, rate, mood,
                 \* intensity
    a_pc,        \* the stage it is about to run, "off" when no call is modelled
    mood,        \* the resolved mood (line 80)
    factor,      \* line 82
    y,           \* the sample buffer
    sr,          \* its sample rate
    out_y,       \* the samples written to output_path
    out_sr,      \* the rate written to output_path
    stages,      \* the stages that have changed or written the buffer, in order
    \* VoiceBank (voice_bank.py) and the request threads that call it
    file,        \* data/voices.json: its "voices" list, and whether it parses
    refs,        \* ids whose reference audio is in data/references
    b_pc,        \* per thread: the line of voice_bank.py it is at, or "idle"
    b_op,        \* per thread: the call it runs, with its arguments
    data,        \* per thread: the local `data["voices"]`
    b_result,    \* per thread: what its last call returned
    b_calls,     \* calls started, all threads together
    nextid,      \* number of the next uuid4
    added,       \* ids of the voices whose add_voice call has returned
    delcalled,   \* ids delete_voice has been called with
    deleted,     \* ids whose delete_voice call returned True
    updcalled,   \* ids update_voice has been called with, with the times
    upddone      \* (id, kwargs) of the update_voice calls that returned a record

evars == <<status, backend, error_msg, tts, lock, pc, op, exc, polls, result,
           entry, snap, calls, failmsg, outcome, dispatched>>

avars == <<req, a_pc, mood, factor, y, sr, out_y, out_sr, stages>>

bvars == <<file, refs, b_pc, b_op, data, b_result, b_calls, nextid, added,
           delcalled, deleted, updcalled, upddone>>

NoSnap == [model_status |-> "-", model_ready |-> "-", model_error |-> "-",
           backend |-> "-"]
NoEntry == "-"

\* TTSEngine.__init__
EngineInit ==
    /\ status = "idle"
    /\ backend = None
    /\ error_msg = None
    /\ tts = None
    /\ lock = "free"
    /\ pc = [t \in Threads |-> "idle"]
    /\ op = [t \in Threads |-> "-"]
    /\ exc = [t \in Threads |-> None]
    /\ polls = [t \in Threads |-> 0]
    /\ result = [t \in Threads |-> "-"]
    /\ entry = [t \in Threads |-> NoEntry]
    /\ snap = [t \in Threads |-> NoSnap]
    /\ calls = [t \in Threads |-> 0]
    /\ failmsg = None
    /\ outcome = "-"
    /\ dispatched = {}

\* the properties of lines 62-76
is_ready == status = "ready"
backend_prop == IF backend = None THEN "none" ELSE backend

\* the engine's fields other than the lock, and a thread's locals
fields == <<status, backend, error_msg, tts>>
locals == <<op, exc, polls, entry, result>>
ghosts == <<failmsg, outcome, dispatched>>
\* what no step of a running engine call changes
others == <<calls, avars, bvars>>

Goto(t, l) == pc' = [pc EXCEPT ![t] = l]

\* the call of thread t ends with r (a return value or the exception raised);
\* what it read at line 114 and how often it polled stay on record until the
\* thread's next call
Finish(t, r) ==
    /\ pc' = [pc EXCEPT ![t] = "idle"]
    /\ result' = [result EXCEPT ![t] = r]
    /\ op' = [op EXCEPT ![t] = "-"]
    /\ exc' = [exc EXCEPT ![t] = None]
    /\ UNCHANGED <<polls, entry>>

\* A thread starts a call: initialize_async's thread runs _load_model,
\* ensure_ready and generate start at line 114, get_status at main.py:65.
Call(t, o) ==
    /\ pc[t] = "idle"
    /\ calls[t] < MaxCalls
    /\ calls' = [calls EXCEPT ![t] = @ + 1]
    /\ op' = [op EXCEPT ![t] = o]
    /\ Goto(t, CASE o = "init" -> "L84"
                 [] o = "status" -> "S65"
                 [] OTHER -> "L114")
    /\ result' = [result EXCEPT ![t] = "-"]
    /\ snap' = [snap EXCEPT ![t] = NoSnap]
    /\ polls' = [polls EXCEPT ![t] = 0]
    /\ entry' = [entry EXCEPT ![t] = NoEntry]
    /\ UNCHANGED <<fields, lock, exc, ghosts, avars, bvars>>

\* where _load_model returns to: its own thread ends, ensure_ready goes on
\* at line 122
Return(t) ==
    IF op[t] = "init"
    THEN Finish(t, "returned")
    ELSE /\ Goto(t, "L122")
         /\ exc' = [exc EXCEPT ![t] = None]
         /\ UNCHANGED <<op, polls, entry, result>>

\* mutant of SkipLoad: a load already in progress is not recognised
SkipLoadReadyOnly == {"ready"}

\* line 85: loading is skipped when the status is one of these
SkipLoad == {"ready", "loading"}

\* mutant of LoadCheck: the lock is kept for the whole load
LoadCheckKeepsLock(t) ==
    /\ pc[t] = "L84"
    /\ lock = "free"
    /\ IF status \in SkipLoad
       THEN Return(t) /\ UNCHANGED <<status, lock>>
       ELSE /\ status' = "loading"
            /\ lock' = t
            /\ Goto(t, "L92")
            /\ UNCHANGED locals
    /\ UNCHANGED <<backend, error_msg, tts, snap, others, ghosts>>

\* lines 84-87: the check and the write, under the lock
LoadCheck(t) ==
    /\ pc[t] = "L84"
    /\ lock = "free"
    /\ IF status \in SkipLoad
       THEN Return(t) /\ UNCHANGED status
       ELSE status' = "loading" /\ Goto(t, "L92") /\ UNCHANGED locals
    /\ UNCHANGED <<backend, error_msg, tts, lock, snap, others, ghosts>>

\* lines 91-92 and 98: TTS(MODEL_NAME) returns the model or raises e
LoadPrimary(t) ==
    /\ pc[t] = "L92"
    /\ \/ /\ Goto(t, "L93")
          /\ outcome' = "ok"
          /\ UNCHANGED <<exc, failmsg>>
       \/ \E e \in Errors :
             /\ exc' = [exc EXCEPT ![t] = e]
             /\ failmsg' = e
             /\ outcome' = "failed"
             /\ Goto(t, "L100")
    /\ UNCHANGED <<fields, lock, op, polls, entry, result, snap, others,
                   dispatched>>

\* lines 93-94: the lock is taken and _tts written
SetTts(t) ==
    /\ pc[t] = "L93"
    /\ lock = "free"
    /\ lock' = t
    /\ tts' = "model"
    /\ Goto(t, "L95")
    /\ UNCHANGED <<status, backend, error_msg, locals, snap, others, ghosts>>

\* line 95
SetReadyPrimary(t) ==
    /\ pc[t] = "L95"
    /\ status' = "ready"
    /\ Goto(t, "L96")
    /\ UNCHANGED <<backend, error_msg, tts, lock, locals, snap, others, ghosts>>

\* line 96, and the lock is released
SetBackendPrimary(t) ==
    /\ pc[t] = "L96"
    /\ backend' = "xtts"
    /\ lock' = "free"
    /\ Return(t)
    /\ UNCHANGED <<status, error_msg, tts, snap, others, ghosts>>

\* line 100: shutil.which("espeak-ng") finds the tool or not
ProbeFallback(t) ==
    /\ pc[t] = "L100"
    /\ \/ Goto(t, "L101") /\ outcome' = "fallback"
       \/ Goto(t, "L107") /\ outcome' = "nofallback"
    /\ UNCHANGED <<fields, lock, locals, snap, others, failmsg, dispatched>>

\* lines 101-102: the lock is taken and _status written
SetReadyFallback(t) ==
    /\ pc[t] = "L101"
    /\ lock = "free"
    /\ lock' = t
    /\ status' = "ready"
    /\ Goto(t, "L103")
    /\ UNCHANGED <<backend, error_msg, tts, locals, snap, others, ghosts>>

\* line 103
SetBackendFallback(t) ==
    /\ pc[t] = "L103"
    /\ backend' = "espeak"
    /\ Goto(t, "L104")
    /\ UNCHANGED <<status, error_msg, tts, lock, locals, snap, others, ghosts>>

\* mutant of SetErrorFallback: the failure message is not kept
SetErrorFallbackDropsMsg(t) ==
    /\ pc[t] = "L104"
    /\ lock' = "free"
    /\ Return(t)
    /\ UNCHANGED <<fields, snap, others, ghosts>>

\* line 104, and the lock is released
SetErrorFallback(t) ==
    /\ pc[t] = "L104"
    /\ error_msg' = exc[t]
    /\ lock' = "free"
    /\ Return(t)
    /\ UNCHANGED <<status, backend, tts, snap, others, ghosts>>

\* lines 107-108: the lock is taken and _status written
SetStatusError(t) ==
    /\ pc[t] = "L107"
    /\ lock = "free"
    /\ lock' = t
    /\ status' = "error"
    /\ Goto(t, "L109")
    /\ UNCHANGED <<backend, error_msg, tts, locals, snap, others, ghosts>>

\* line 109, and the lock is released
SetErrorMsg(t) ==
    /\ pc[t] = "L109"
    /\ error_msg' = exc[t]
    /\ lock' = "free"
    /\ Return(t)
    /\ UNCHANGED <<status, backend, tts, snap, others, ghosts>>

\* ------------------------------------------------------------ ensure_ready
\* line 114: the first read of the status
EnsureIdle(t) ==
    /\ pc[t] = "L114"
    /\ entry' = [entry EXCEPT ![t] = status]
    /\ IF status = "idle" THEN Goto(t, "L84") ELSE Goto(t, "L116")
    /\ UNCHANGED <<fields, lock, op, exc, polls, result, snap, others, ghosts>>

\* line 116: the second read
EnsureLoading(t) ==
    /\ pc[t] = "L116"
    /\ IF status = "loading" THEN Goto(t, "L119") ELSE Goto(t, "L122")
    /\ UNCHANGED <<fields, lock, locals, snap, others, ghosts>>

\* mutant of Poll: the loop has no ceiling
PollNoCeiling(t) ==
    /\ pc[t] = "L119"
    /\ polls' = [polls EXCEPT ![t] = @ + 1]
    /\ IF status \in {"ready", "error"}
       THEN Goto(t, "L122")
       ELSE Goto(t, "L119")
    /\ UNCHANGED <<fields, lock, op, exc, entry, result, snap, others, ghosts>>

\* lines 118-121: one iteration, sleep(1) and the check
Poll(t) ==
    /\ pc[t] = "L119"
    /\ polls' = [polls EXCEPT ![t] = @ + 1]
    /\ IF status \in {"ready", "error"} \/ polls[t] + 1 >= PollCeiling
       THEN Goto(t, "L122")
       ELSE Goto(t, "L119")
    /\ UNCHANGED <<fields, lock, op, exc, entry, result, snap, others, ghosts>>

\* line 122, left operand of `and`
CheckError(t) ==
    /\ pc[t] = "L122"
    /\ IF status = "error" THEN Goto(t, "L122b") ELSE Goto(t, "L124")
    /\ UNCHANGED <<fields, lock, locals, snap, others, ghosts>>

\* line 122, right operand, and the raise of line 123
CheckNoBackend(t) ==
    /\ pc[t] = "L122b"
    /\ IF backend = None
       THEN Finish(t, "initfail")
       ELSE Goto(t, "L124") /\ UNCHANGED locals
    /\ UNCHANGED <<fields, lock, snap, others, ghosts>>

\* lines 124-125; generate goes on at line 151
CheckReady(t) ==
    /\ pc[t] = "L124"
    /\ IF status # "ready"
       THEN Finish(t, "notready")
       ELSE IF op[t] = "ensure"
            THEN Finish(t, "ready")
            ELSE Goto(t, "L151") /\ UNCHANGED locals
    /\ UNCHANGED <<fields, lock, snap, others, ghosts>>

\* ---------------------------------------------------------------- generate
\* lines 151-154
Dispatch(t) ==
    /\ pc[t] = "L151"
    /\ IF backend = "xtts"
       THEN Goto(t, "L159") /\ dispatched' = dispatched \cup {"xtts"}
       ELSE Goto(t, "L174") /\ dispatched' = dispatched \cup {"espeak"}
    /\ UNCHANGED <<fields, lock, locals, snap, others, failmsg, outcome>>

\* mutant of XttsLock: tts_to_file is entered without the lock
XttsNoLock(t) ==
    /\ pc[t] = "L159"
    /\ Goto(t, "L160")
    /\ UNCHANGED <<fields, lock, locals, snap, others, ghosts>>

\* line 159: `with self._lock:`
XttsLock(t) ==
    /\ pc[t] = "L159"
    /\ lock = "free"
    /\ lock' = t
    /\ Goto(t, "L160")
    /\ UNCHANGED <<fields, locals, snap, others, ghosts>>

\* lines 160-167: self._tts.tts_to_file(...) returns or raises, the lock is
\* released
XttsSynth(t) ==
    /\ pc[t] = "L160"
    /\ lock' = "free"
    /\ \/ tts # None /\ Finish(t, "xtts")
       \/ Finish(t, "xtts_error")
    /\ UNCHANGED <<fields, snap, others, ghosts>>

\* lines 169-198: espeak-ng runs (no lock) and returns 0 or not
EspeakSynth(t) ==
    /\ pc[t] = "L174"
    /\ \/ Finish(t, "espeak")
       \/ Finish(t, "espeak_error")
    /\ UNCHANGED <<fields, lock, snap, others, ghosts>>

\* -------------------------------------------------- get_status (main.py)
Str(b) == IF b THEN "true" ELSE "false"

\* main.py line 65
ReadStatus(t) ==
    /\ pc[t] = "S65"
    /\ snap' = [snap EXCEPT ![t].model_status = status]
    /\ Goto(t, "S66")
    /\ UNCHANGED <<fields, lock, locals, others, ghosts>>

\* main.py line 66
ReadIsReady(t) ==
    /\ pc[t] = "S66"
    /\ snap' = [snap EXCEPT ![t].model_ready = Str(is_ready)]
    /\ Goto(t, "S67")
    /\ UNCHANGED <<fields, lock, locals, others, ghosts>>

\* main.py line 67
ReadError(t) ==
    /\ pc[t] = "S67"
    /\ snap' = [snap EXCEPT ![t].model_error = error_msg]
    /\ Goto(t, "S68")
    /\ UNCHANGED <<fields, lock, locals, others, ghosts>>

\* main.py line 68, and the return
ReadBackend(t) ==
    /\ pc[t] = "S68"
    /\ snap' = [snap EXCEPT ![t].backend = backend_prop]
    /\ Finish(t, "snapshot")
    /\ UNCHANGED <<fields, lock, others, ghosts>>

\* ------------------------------------------------------------- apply_mood
\* Amplitudes, ratios, semitones and decibels are fixed-point numbers with
\* four decimals: One stands for 1.0.
One == 10 * 1000
\* longest input buffer
MaxLen == 3
Samples == {-One, -9800, 0, 5000, 9800}
Rates == {22050, 44100, 88200}
MoodNames == {"normal", "upbeat", "angry", "excited", "calm"}
Intensities == 0 .. 6

TARGET_SR == 44100

\* MOOD_PARAMS: (pitch_semitones_max, speed_max, gain_db_max)
MOOD_PARAMS ==
    [normal  |-> <<0,      One,   0>>,
     upbeat  |-> <<25000,  11800, 15000>>,
     angry   |-> <<-15000, 11200, 30000>>,
     excited |-> <<35000,  12200, 20000>>]

Abs(x) == IF x < 0 THEN -x ELSE x
Max(a, b) == IF a >= b THEN a ELSE b
Min(a, b) == IF a <= b THEN a ELSE b
\* division rounding toward zero, and to the nearest
Quot(a, b) == IF a >= 0 THEN a \div b ELSE -((-a) \div b)
Round(a, b) == IF a >= 0 THEN (2 * a + b) \div (2 * b)
                         ELSE -((2 * (-a) + b) \div (2 * b))

\* np.max(np.abs(y))
RECURSIVE PeakOf(_)
PeakOf(q) == IF q = <<>> THEN 0 ELSE Max(Abs(Head(q)), PeakOf(Tail(q)))

Scale(q, num, den) == [i \in 1 .. Len(q) |-> Quot(q[i] * num, den)]

\* line 80
ResolveMood(m) == IF m \in DOMAIN MOOD_PARAMS THEN m ELSE "normal"
\* mutant of Factor: the intensity is not clamped
FactorUnclamped(intensity) == ((intensity - 1) * One) \div 4

\* line 82
Factor(intensity) == ((Max(1, Min(5, intensity)) - 1) * One) \div 4
\* lines 89, 94
PitchSteps(m, f) == Quot(MOOD_PARAMS[m][1] * f, One)
SpeedRate(m, f) == One + Quot((MOOD_PARAMS[m][2] - One) * f, One)
GainDb(m, f) == Quot(MOOD_PARAMS[m][3] * f, One)

\* line 99: 10 ** (db / 20), by steps of 1/8 dB; 10 ** (1/160) = 1.0145
RECURSIVE Pow10Eighths(_)
Pow10Eighths(n) ==
    IF n <= 0 THEN One ELSE Round(Pow10Eighths(n - 1) * 10145, One)
\* mutant of GainLin: the gain is the mood's maximum at every intensity
GainLinFull(m, f) == Pow10Eighths(MOOD_PARAMS[m][3] \div 1250)

GainLin(m, f) == Pow10Eighths(GainDb(m, f) \div 1250)

\* np.tanh, from its values at 0, 0.25, ..., 3.25 and straight lines between;
\* argument and value in units of 1/One
TanhTable == <<0, 2449, 4621, 6351, 7616, 8483, 9051, 9414, 9640, 9780,
               9866, 9919, 9951, 9971>>
TanhPos(x) ==
    LET k == x \div 2500
    IN  IF k + 2 > Len(TanhTable)
        THEN TanhTable[Len(TanhTable)]
        ELSE TanhTable[k + 1]
             + ((TanhTable[k + 2] - TanhTable[k + 1]) * (x % 2500)) \div 2500
Tanh(x) == IF x >= 0 THEN TanhPos(x) ELSE -TanhPos(-x)

\* line 105
ClipThreshold(f) == 8500 - Quot(1500 * f, One)
\* line 106
SoftClipSample(v, c) == Quot(Tanh(Quot(v * One, c)) * c, One)

\* librosa.resample, for the ratios the model's rates need.  Ratio two
\* (22050 -> 44100): the input samples and, between neighbours, the value of
\* the four-tap half-band interpolator (-1, 9, 9, -1)/16, the signal being
\* zero outside the buffer.  A band-limited interpolator has negative side
\* lobes, so an interpolated value can exceed both neighbours.  Ratio one half
\* (88200 -> 44100): every second value of the signal filtered by the
\* half-band low-pass (-1, 0, 9, 16, 9, 0, -1)/32.
At(q, i) == IF i >= 1 /\ i <= Len(q) THEN q[i] ELSE 0
HalfBand(q, i) ==
    Quot(9 * (At(q, i) + At(q, i + 1)) - At(q, i - 1) - At(q, i + 2), 16)
LowPass(q, i) ==
    Quot(16 * At(q, i) + 9 * (At(q, i - 1) + At(q, i + 1))
         - At(q, i - 3) - At(q, i + 3), 32)
Resample(q, orig_sr, target_sr) ==
    CASE target_sr = 2 * orig_sr ->
        [j \in 1 .. 2 * Len(q) |->
            IF j % 2 = 1 THEN q[(j + 1) \div 2] ELSE HalfBand(q, j \div 2)]
      [] orig_sr = 2 * target_sr ->
        [j \in 1 .. (Len(q) + 1) \div 2 |-> LowPass(q, 2 * j - 1)]

\* sf.write(..., subtype="PCM_16"): floats outside [-1, 1] are clipped
Pcm16(v) == Max(-One, Min(One, v))

\* what librosa's phase vocoder may do to the level of a buffer, in percent
LibGains == {90, 120}
StretchedLen(n, rate) == Max(1, Round(n * One, rate))

AudioOff ==
    /\ req = [fn |-> "-", y |-> <<>>, sr |-> 0, mood |-> "-", intensity |-> 0]
    /\ a_pc = "off"
    /\ mood = "-"
    /\ factor = 0
    /\ y = <<>>
    /\ sr = 0
    /\ out_y = <<>>
    /\ out_sr = 0
    /\ stages = <<>>

Buffers == UNION {[1 .. n -> Samples] : n \in 1 .. MaxLen}

\* the peak the reduced normalization scales to: normalize_wav (line 136)
\* and _generate_espeak (tts_engine.py:191)
RefPeak == 9000
EspeakPeak == 8500

\* a call apply_mood(input_path, output_path, mood, intensity), a call
\* normalize_wav(input_path, output_path), or the part of _generate_espeak
\* that follows the espeak-ng run, y and sr being what the input file holds
Requests ==
    [fn : {"apply_mood"}, y : Buffers, sr : Rates, mood : MoodNames,
     intensity : Intensities]
    \cup [fn : {"normalize_wav", "_generate_espeak"}, y : Buffers, sr : Rates,
          mood : {"-"}, intensity : {0}]

\* the first line of each function's body that the model runs
EntryLine(fn) ==
    CASE fn = "apply_mood" -> "L80"
      [] fn = "normalize_wav" -> "N131"
      [] fn = "_generate_espeak" -> "E186"

AudioInit ==
    /\ req \in Requests
    /\ a_pc = EntryLine(req.fn)
    /\ mood = "-"
    /\ factor = 0
    /\ y = <<>>
    /\ sr = 0
    /\ out_y = <<>>
    /\ out_sr = 0
    /\ stages = <<>>

\* mutant of LoadAudio: the loaded buffer is peak-normalized first
LoadAudioNormalized ==
    /\ a_pc = "L80"
    /\ mood' = ResolveMood(req.mood)
    /\ factor' = Factor(req.intensity)
    /\ IF PeakOf(req.y) > 9800
       THEN /\ y' = Scale(req.y, 9500, PeakOf(req.y))
            /\ stages' = Append(stages, "normalize")
       ELSE y' = req.y /\ UNCHANGED stages
    /\ sr' = req.sr
    /\ a_pc' = "L89"
    /\ UNCHANGED <<evars, bvars, req, out_y, out_sr>>

\* lines 80-86
LoadAudio ==
    /\ a_pc = "L80"
    /\ mood' = ResolveMood(req.mood)
    /\ factor' = Factor(req.intensity)
    /\ y' = req.y
    /\ sr' = req.sr
    /\ a_pc' = "L89"
    /\ UNCHANGED <<evars, bvars, req, out_y, out_sr, stages>>

\* lines 89-91
PitchShift ==
    /\ a_pc = "L89"
    /\ IF Abs(PitchSteps(mood, factor)) > 100
       THEN /\ \E g \in LibGains : y' = Scale(y, g, 100)
            /\ stages' = Append(stages, "pitch_shift")
       ELSE UNCHANGED <<y, stages>>
    /\ a_pc' = "L94"
    /\ UNCHANGED <<evars, bvars, req, mood, factor, sr, out_y, out_sr>>

\* lines 94-96
TimeStretch ==
    /\ a_pc = "L94"
    /\ IF Abs(SpeedRate(mood, factor) - One) > 50
       THEN /\ \E g \in LibGains :
                 y' = Scale(SubSeq(y, 1, StretchedLen(Len(y),
                                          SpeedRate(mood, factor))), g, 100)
            /\ stages' = Append(stages, "time_stretch")
       ELSE UNCHANGED <<y, stages>>
    /\ a_pc' = "L99"
    /\ UNCHANGED <<evars, bvars, req, mood, factor, sr, out_y, out_sr>>

\* lines 99-100
Gain ==
    /\ a_pc = "L99"
    /\ y' = Scale(y, GainLin(mood, factor), One)
    /\ stages' = Append(stages, "gain")
    /\ a_pc' = "L103"
    /\ UNCHANGED <<evars, bvars, req, mood, factor, sr, out_y, out_sr>>

\* mutant of SoftClip: the factor is not looked at
SoftClipAnyFactor ==
    /\ a_pc = "L103"
    /\ IF mood = "angry"
       THEN /\ y' = [i \in 1 .. Len(y) |->
                        SoftClipSample(y[i], ClipThreshold(factor))]
            /\ stages' = Append(stages, "soft_clip")
       ELSE UNCHANGED <<y, stages>>
    /\ a_pc' = "L109"
    /\ UNCHANGED <<evars, bvars, req, mood, factor, sr, out_y, out_sr>>

\* lines 103-106
SoftClip ==
    /\ a_pc = "L103"
    /\ IF mood = "angry" /\ factor > 2000
       THEN /\ y' = [i \in 1 .. Len(y) |->
                        SoftClipSample(y[i], ClipThreshold(factor))]
            /\ stages' = Append(stages, "soft_clip")
       ELSE UNCHANGED <<y, stages>>
    /\ a_pc' = "L109"
    /\ UNCHANGED <<evars, bvars, req, mood, factor, sr, out_y, out_sr>>

\* mutant of PeakNormalize: the limit is 0.9
PeakNormalizeLow ==
    /\ a_pc = "L109"
    /\ IF PeakOf(y) > 9000
       THEN /\ y' = Scale(y, 9500, PeakOf(y))
            /\ stages' = Append(stages, "normalize")
       ELSE UNCHANGED <<y, stages>>
    /\ a_pc' = "L114"
    /\ UNCHANGED <<evars, bvars, req, mood, factor, sr, out_y, out_sr>>

\* lines 109-111
PeakNormalize ==
    /\ a_pc = "L109"
    /\ IF PeakOf(y) > 9800
       THEN /\ y' = Scale(y, 9500, PeakOf(y))
            /\ stages' = Append(stages, "normalize")
       ELSE UNCHANGED <<y, stages>>
    /\ a_pc' = "L114"
    /\ UNCHANGED <<evars, bvars, req, mood, factor, sr, out_y, out_sr>>

\* mutant of ResampleStage: the rate written stays the input's
ResampleStageKeepsRate ==
    /\ a_pc = "L114"
    /\ IF sr # TARGET_SR
       THEN /\ y' = Resample(y, sr, TARGET_SR)
            /\ stages' = Append(stages, "resample")
       ELSE UNCHANGED <<y, stages>>
    /\ a_pc' = "L119"
    /\ UNCHANGED <<evars, bvars, req, mood, factor, sr, out_y, out_sr>>

\* lines 114-116
ResampleStage ==
    /\ a_pc = "L114"
    /\ IF sr # TARGET_SR
       THEN /\ y' = Resample(y, sr, TARGET_SR)
            /\ sr' = TARGET_SR
            /\ stages' = Append(stages, "resample")
       ELSE UNCHANGED <<y, sr, stages>>
    /\ a_pc' = "L119"
    /\ UNCHANGED <<evars, bvars, req, mood, factor, out_y, out_sr>>

\* line 119
WritePcm ==
    /\ a_pc = "L119"
    /\ out_y' = [i \in 1 .. Len(y) |-> Pcm16(y[i])]
    /\ out_sr' = sr
    /\ stages' = Append(stages, "write")
    /\ a_pc' = "done"
    /\ UNCHANGED <<evars, bvars, req, mood, factor, y, sr>>

\* ---------------------------------------------------------- normalize_wav
\* line 131
NormLoad ==
    /\ a_pc = "N131"
    /\ y' = req.y
    /\ sr' = req.sr
    /\ a_pc' = "N132"
    /\ UNCHANGED <<evars, bvars, req, mood, factor, out_y, out_sr, stages>>

\* lines 132-133: sr itself is not reassigned
NormResample ==
    /\ a_pc = "N132"
    /\ IF sr # TARGET_SR
       THEN /\ y' = Resample(y, sr, TARGET_SR)
            /\ stages' = Append(stages, "resample")
       ELSE UNCHANGED <<y, stages>>
    /\ a_pc' = "N134"
    /\ UNCHANGED <<evars, bvars, req, mood, factor, sr, out_y, out_sr>>

\* mutant of NormPeak: only a buffer above the target is scaled
NormPeakOnlyLoud ==
    /\ a_pc = "N134"
    /\ IF PeakOf(y) > RefPeak
       THEN /\ y' = Scale(y, RefPeak, PeakOf(y))
            /\ stages' = Append(stages, "normalize")
       ELSE UNCHANGED <<y, stages>>
    /\ a_pc' = "N137"
    /\ UNCHANGED <<evars, bvars, req, mood, factor, sr, out_y, out_sr>>

\* lines 134-136
NormPeak ==
    /\ a_pc = "N134"
    /\ IF PeakOf(y) > 0
       THEN /\ y' = Scale(y, RefPeak, PeakOf(y))
            /\ stages' = Append(stages, "normalize")
       ELSE UNCHANGED <<y, stages>>
    /\ a_pc' = "N137"
    /\ UNCHANGED <<evars, bvars, req, mood, factor, sr, out_y, out_sr>>

\* line 137: written at TARGET_SR
NormWrite ==
    /\ a_pc = "N137"
    /\ out_y' = [i \in 1 .. Len(y) |-> Pcm16(y[i])]
    /\ out_sr' = TARGET_SR
    /\ stages' = Append(stages, "write")
    /\ a_pc' = "done"
    /\ UNCHANGED <<evars, bvars, req, mood, factor, y, sr>>

\* ------------------------------------- _generate_espeak (tts_engine.py)
\* line 186
EspeakLoad ==
    /\ a_pc = "E186"
    /\ y' = req.y
    /\ sr' = req.sr
    /\ a_pc' = "E187"
    /\ UNCHANGED <<evars, bvars, req, mood, factor, out_y, out_sr, stages>>

\* lines 187-188
EspeakResample ==
    /\ a_pc = "E187"
    /\ IF sr # 44100
       THEN /\ y' = Resample(y, sr, 44100)
            /\ stages' = Append(stages, "resample")
       ELSE UNCHANGED <<y, stages>>
    /\ a_pc' = "E189"
    /\ UNCHANGED <<evars, bvars, req, mood, factor, sr, out_y, out_sr>>

\* lines 189-191
EspeakNormalize ==
    /\ a_pc = "E189"
    /\ IF PeakOf(y) > 0
       THEN /\ y' = Scale(y, EspeakPeak, PeakOf(y))
            /\ stages' = Append(stages, "normalize")
       ELSE UNCHANGED <<y, stages>>
    /\ a_pc' = "E192"
    /\ UNCHANGED <<evars, bvars, req, mood, factor, sr, out_y, out_sr>>

\* line 192
EspeakWrite ==
    /\ a_pc = "E192"
    /\ out_y' = [i \in 1 .. Len(y) |-> Pcm16(y[i])]
    /\ out_sr' = 44100
    /\ stages' = Append(stages, "write")
    /\ a_pc' = "done"
    /\ UNCHANGED <<evars, bvars, req, mood, factor, y, sr>>

AudioNext ==
    \/ LoadAudio \/ PitchShift \/ TimeStretch \/ Gain \/ SoftClip
    \/ PeakNormalize \/ ResampleStage \/ WritePcm
    \/ NormLoad \/ NormResample \/ NormPeak \/ NormWrite
    \/ EspeakLoad \/ EspeakResample \/ EspeakNormalize \/ EspeakWrite

\* --------------------------------------------------------------- VoiceBank
\* main.py: clone_voice is an `async def`, so its add_voice calls run one at
\* a time on the event loop; update_voice and delete_voice are `def` handlers,
\* which the server runs on worker threads.  No lock guards the JSON file.
Loop == "loop"
Workers == {"w1", "w2"}
BankThreads == {Loop} \cup Workers
\* calls the request threads make, all together
MaxBankCalls == 3
Names == {"n1"}
\* keyword arguments of an update_voice call
Kwargs == {[name |-> "n2"],
           [gender |-> "male", description |-> "d"],
           [id |-> 0, reference_file |-> 0, created_at |-> 0,
            language |-> "en"]}
NoKwargs == [k \in {} |-> 0]

\* the file between the open(..., "w") of write_text, which truncates it, and
\* the write
Torn == [ok |-> FALSE, voices |-> <<>>]
\* the file holding the JSON text of the list d
Written(d) == [ok |-> TRUE, voices |-> d]

\* _load: the list read, or [] when json.loads raises
Load(f) == IF f.ok THEN f.voices ELSE <<>>

\* line 95
allowed == {"name", "gender", "language", "description"}

\* lines 55-63: the record of a new voice; the reference file is named after
\* the id, created_at is the time of the add
NewVoice(vid, name) ==
    [id |-> vid, name |-> name, gender |-> "unknown", language |-> "pt",
     description |-> "", reference_file |-> vid, created_at |-> vid]

\* VoiceBank.__init__ and _ensure_json: an empty list is written when there
\* is no file; a file left by an earlier run is kept, here with one voice
BankInit ==
    /\ nextid \in {1, 2}
    /\ file = Written([i \in 1 .. nextid - 1 |-> NewVoice(i, "n1")])
    /\ refs = 1 .. nextid - 1
    /\ b_pc = [t \in BankThreads |-> "idle"]
    /\ b_op = [t \in BankThreads |->
                 [fn |-> "-", name |-> "-", id |-> 0, kw |-> NoKwargs]]
    /\ data = [t \in BankThreads |-> <<>>]
    /\ b_result = [t \in BankThreads |-> "-"]
    /\ b_calls = 0
    /\ added = 1 .. nextid - 1
    /\ delcalled = {}
    /\ deleted = {}
    /\ updcalled = [i \in {} |-> 0]
    /\ upddone = {}

\* lines 96-98
ApplyKwargs(v, kw) ==
    [k \in DOMAIN v |-> IF k \in DOMAIN kw /\ k \in allowed THEN kw[k]
                                                         ELSE v[k]]

\* index of the first record with this id, 0 when there is none
Find(d, vid) ==
    IF \E i \in DOMAIN d : d[i].id = vid
    THEN CHOOSE i \in DOMAIN d :
             d[i].id = vid /\ \A j \in 1 .. i - 1 : d[j].id # vid
    ELSE 0

\* [v for v in data["voices"] if v["id"] != voice_id]
RECURSIVE Without(_, _)
Without(d, vid) ==
    IF d = <<>> THEN <<>>
    ELSE IF Head(d).id = vid THEN Without(Tail(d), vid)
         ELSE <<Head(d)>> \o Without(Tail(d), vid)

\* the calls a thread may start
BankOps(t) ==
    IF t = Loop
    THEN [fn : {"add_voice"}, name : Names, id : {0}, kw : {NoKwargs}]
    ELSE [fn : {"update_voice"}, name : {"-"}, id : 1 .. nextid, kw : Kwargs]
         \cup [fn : {"delete_voice"}, name : {"-"}, id : 1 .. nextid,
               kw : {NoKwargs}]

BankEntry(fn) ==
    CASE fn = "add_voice" -> "V50"
      [] fn = "update_voice" -> "V92"
      [] fn = "delete_voice" -> "V104"

\* one more call with this id
CountCall(f, vid) ==
    [i \in DOMAIN f \cup {vid} |->
        IF i = vid THEN (IF vid \in DOMAIN f THEN f[vid] + 1 ELSE 1) ELSE f[i]]

BankGoto(t, l) == b_pc' = [b_pc EXCEPT ![t] = l]

\* a request thread enters add_voice, update_voice or delete_voice
BankCall(t, o) ==
    /\ b_pc[t] = "idle"
    /\ b_calls < MaxBankCalls
    /\ b_calls' = b_calls + 1
    /\ b_op' = [b_op EXCEPT ![t] = o]
    /\ b_result' = [b_result EXCEPT ![t] = "-"]
    /\ BankGoto(t, BankEntry(o.fn))
    /\ delcalled' = IF o.fn = "delete_voice" THEN delcalled \cup {o.id}
                    ELSE delcalled
    /\ updcalled' = IF o.fn = "update_voice" THEN CountCall(updcalled, o.id)
                    ELSE updcalled
    /\ UNCHANGED <<evars, avars, file, refs, data, nextid, added, deleted,
                   upddone>>

\* the call of thread t returns r
BankReturn(t, r) ==
    /\ b_pc' = [b_pc EXCEPT ![t] = "idle"]
    /\ b_result' = [b_result EXCEPT ![t] = r]
    /\ data' = [data EXCEPT ![t] = <<>>]

\* add_voice, lines 50-63: a fresh id, the reference audio is copied
AddCopy(t) ==
    /\ b_pc[t] = "V50"
    /\ b_op' = [b_op EXCEPT ![t].id = nextid]
    /\ nextid' = nextid + 1
    /\ refs' = refs \cup {nextid}
    /\ BankGoto(t, "V65")
    /\ UNCHANGED <<evars, avars, file, data, b_result, b_calls, added,
                   delcalled, deleted, updcalled, upddone>>

\* add_voice, lines 65-66
AddLoad(t) ==
    /\ b_pc[t] = "V65"
    /\ data' = [data EXCEPT
                  ![t] = Append(Load(file), NewVoice(b_op[t].id, b_op[t].name))]
    /\ BankGoto(t, "V39")
    /\ UNCHANGED <<evars, avars, file, refs, b_op, b_result, b_calls, nextid,
                   added, delcalled, deleted, updcalled, upddone>>

\* update_voice, lines 92-98 and 101
UpdLoad(t) ==
    /\ b_pc[t] = "V92"
    /\ LET d == Load(file)
           i == Find(d, b_op[t].id)
       IN  IF i = 0
           THEN BankReturn(t, "None")
           ELSE /\ data' = [data EXCEPT
                              ![t] = [d EXCEPT
                                        ![i] = ApplyKwargs(d[i], b_op[t].kw)]]
                /\ BankGoto(t, "V39")
                /\ UNCHANGED b_result
    /\ UNCHANGED <<evars, avars, file, refs, b_op, b_calls, nextid, added,
                   delcalled, deleted, updcalled, upddone>>

\* delete_voice, lines 104-107
DelLoad(t) ==
    /\ b_pc[t] = "V104"
    /\ LET d == Load(file)
       IN  IF Find(d, b_op[t].id) = 0
           THEN BankReturn(t, "False")
           ELSE /\ data' = [data EXCEPT ![t] = d]
                /\ BankGoto(t, "V110")
                /\ UNCHANGED b_result
    /\ UNCHANGED <<evars, avars, file, refs, b_op, b_calls, nextid, added,
                   delcalled, deleted, updcalled, upddone>>

\* delete_voice, lines 110-114: the reference file is removed if it is there
DelUnlink(t) ==
    /\ b_pc[t] = "V110"
    /\ refs' = refs \ {data[t][Find(data[t], b_op[t].id)].reference_file}
    /\ data' = [data EXCEPT ![t] = Without(data[t], b_op[t].id)]
    /\ BankGoto(t, "V39")
    /\ UNCHANGED <<evars, avars, file, b_op, b_result, b_calls, nextid, added,
                   delcalled, deleted, updcalled, upddone>>

\* _save, line 39: write_text opens the file for writing, which empties it
SaveOpen(t) ==
    /\ b_pc[t] = "V39"
    /\ file' = Torn
    /\ BankGoto(t, "V39w")
    /\ UNCHANGED <<evars, avars, refs, b_op, data, b_result, b_calls, nextid,
                   added, delcalled, deleted, updcalled, upddone>>

\* _save, line 39: the JSON text is written; then the caller returns
\* (lines 68-69, 100, 116)
SaveWrite(t) ==
    /\ b_pc[t] = "V39w"
    /\ file' = Written(data[t])
    /\ BankReturn(t, IF b_op[t].fn = "delete_voice" THEN "True" ELSE "voice")
    /\ added' = IF b_op[t].fn = "add_voice" THEN added \cup {b_op[t].id}
                ELSE added
    /\ deleted' = IF b_op[t].fn = "delete_voice"
                  THEN deleted \cup {b_op[t].id} ELSE deleted
    /\ upddone' = IF b_op[t].fn = "update_voice"
                  THEN upddone \cup {<<b_op[t].id, b_op[t].kw>>} ELSE upddone
    /\ UNCHANGED <<evars, avars, refs, b_op, b_calls, nextid, delcalled,
                   updcalled>>

BankNext ==
    \E t \in BankThreads :
        \/ \E o \in BankOps(t) : BankCall(t, o)
        \/ AddCopy(t) \/ AddLoad(t)
        \/ UpdLoad(t)
        \/ DelLoad(t) \/ DelUnlink(t)
        \/ SaveOpen(t) \/ SaveWrite(t)

\* ------------------------------------------------------------ specification
Init == EngineInit /\ AudioOff /\ BankInit /\ nextid = 1

EngineNext ==
    \E t \in Threads :
        \/ \E o \in Ops : Call(t, o)
        \/ LoadCheck(t) \/ LoadPrimary(t)
        \/ SetTts(t) \/ SetReadyPrimary(t) \/ SetBackendPrimary(t)
        \/ ProbeFallback(t)
        \/ SetReadyFallback(t) \/ SetBackendFallback(t) \/ SetErrorFallback(t)
        \/ SetStatusError(t) \/ SetErrorMsg(t)
        \/ EnsureIdle(t) \/ EnsureLoading(t) \/ Poll(t)
        \/ CheckError(t) \/ CheckNoBackend(t) \/ CheckReady(t)
        \/ Dispatch(t) \/ XttsLock(t) \/ XttsSynth(t) \/ EspeakSynth(t)
        \/ ReadStatus(t) \/ ReadIsReady(t) \/ ReadError(t) \/ ReadBackend(t)

Next == EngineNext

vars == <<evars, avars, bvars>>

\* the engine, its callers and its status readers
Spec == Init /\ [][Next]_vars

\* a step of a running initialize_async thread, ensure_ready or generate
\* call; the interpreter schedules every runnable thread, so a running call
\* is not left waiting forever
Run(t) ==
    \/ LoadCheck(t) \/ LoadPrimary(t)
    \/ SetTts(t) \/ SetReadyPrimary(t) \/ SetBackendPrimary(t)
    \/ ProbeFallback(t)
    \/ SetReadyFallback(t) \/ SetBackendFallback(t) \/ SetErrorFallback(t)
    \/ SetStatusError(t) \/ SetErrorMsg(t)
    \/ EnsureIdle(t) \/ EnsureLoading(t) \/ Poll(t)
    \/ CheckError(t) \/ CheckNoBackend(t) \/ CheckReady(t)
    \/ Dispatch(t) \/ XttsLock(t) \/ XttsSynth(t) \/ EspeakSynth(t)

\* the engine and the calls that load the model, wait for it or take the
\* lock; get_status, which takes no lock and writes no field, is left out
FairNext ==
    \E t \in Threads :
        \/ \E o \in {"init", "ensure", "gen"} : Call(t, o)
        \/ Run(t)

\* the same with fair scheduling of the threads; TTS(MODEL_NAME) returning
\* or raising is the step LoadPrimary
FairSpec == Init /\ [][FairNext]_vars /\ \A t \in Threads : WF_vars(Run(t))

\* the voice bank and the request threads that call it
InitBank == EngineInit /\ AudioOff /\ BankInit
SpecBank == InitBank /\ [][BankNext]_vars

\* one apply_mood call on any input of the bounded sets
InitAudio == EngineInit /\ AudioInit /\ BankInit /\ nextid = 1
SpecAudio == InitAudio /\ [][AudioNext]_vars

\* ------------------------------------------------------- engine properties
ReadyPrimary == status = "ready" /\ backend = "xtts"
ReadyFallback == status = "ready" /\ backend = "espeak"
Terminal == ReadyPrimary \/ ReadyFallback \/ status = "error"

\* the lines of _load_model after the status became "loading"
LoadSection == {"L92", "L93", "L95", "L96", "L100", "L101", "L103", "L104",
                "L107", "L109"}
Loaders == {t \in Threads : pc[t] \in LoadSection}

\* C1: once Ready(primary), Ready(fallback) or Error is reached, the status
\* and the selected backend never change again (no way back to Loading, no
\* second load attempt).
C1_TerminalNeverChanges ==
    [][Terminal => (status' = status /\ backend' = backend)]_vars

\* C2: when the primary backend loaded (Ready(primary)), no generate() call
\* was dispatched to the fallback backend, so all calls used one backend kind.
C2_PrimaryNeverToFallback ==
    ReadyPrimary => dispatched \subseteq {"xtts"}

\* C3: a call that began in Idle or Loading fails with "not ready" only
\* after polling for the full ceiling.
C3_NotReadyOnlyAfterCeiling ==
    \A t \in Threads :
        (result[t] = "notready" /\ entry[t] \in {"idle", "loading"})
            => polls[t] = PollCeiling

\* C4: at most one thread is inside a load attempt at any time, and while a
\* thread constructs the primary backend or probes the fallback the status
\* is "loading": no other thread has moved it.
C4_OneLoader ==
    /\ Cardinality(Loaders) <= 1
    /\ \A t \in Threads : pc[t] \in {"L92", "L93", "L100", "L101", "L107"}
                             => status = "loading"
    /\ \A t \in Loaders : lock \in {"free", t}

C4_Witness ==
    \E t, u \in Threads :
        /\ t # u
        /\ pc[t] = "L92"
        /\ result[u] = "returned"
        /\ outcome = "-"

\* C5: initialize() while Loading, Ready or Error is a no-op: its thread
\* returns and status, backend, error message and model handle are unchanged.
C5_InitializeNoOp ==
    [][\A t \in Threads :
          (/\ pc[t] = "L84"
           /\ op[t] = "init"
           /\ status \in {"loading", "ready", "error"}
           /\ pc'[t] # "L84")
          => (pc'[t] = "idle" /\ UNCHANGED fields)]_vars

\* C6: a load attempt that failed with the fallback tool present ends in
\* Ready(fallback) with the failure message kept; one that succeeded ends in
\* Ready(primary); the probe runs only in a thread that caught the primary
\* failure; a call that begins after the fallback was selected passes
\* ensure_ready and goes to the fallback backend.
C6_FallbackSelected ==
    /\ (outcome = "fallback" /\ Loaders = {})
          => (ReadyFallback /\ failmsg \in Errors /\ error_msg = failmsg)
    /\ (outcome = "ok" /\ Loaders = {}) => (ReadyPrimary /\ tts = "model")
    /\ \A t \in Threads :
          pc[t] \in {"L100", "L101", "L103", "L104"} => exc[t] \in Errors
    /\ \A t \in Threads :
          (entry[t] = "ready" /\ outcome = "fallback")
             => /\ result[t] \in {"-", "ready", "espeak", "espeak_error"}
                /\ pc[t] \in {"idle", "L116", "L122", "L124", "L151", "L174"}

C6_Witness ==
    \E t \in Threads :
        /\ entry[t] = "ready"
        /\ outcome = "fallback"
        /\ result[t] = "espeak"
        /\ ReadyFallback
        /\ error_msg \in Errors

\* C7: a load attempt that failed with the fallback tool absent ends in Error
\* with the message, and a call that began in Error ends with the permanent
\* initialization error, never "not ready", never reaching a backend.
C7_ErrorIsPermanent ==
    /\ (outcome = "nofallback" /\ Loaders = {})
          => (status = "error" /\ error_msg = failmsg)
    /\ \A t \in Threads :
          entry[t] = "error"
             => /\ result[t] \in {"-", "initfail"}
                /\ pc[t] \in {"idle", "L116", "L122", "L122b"}

\* C8: ensure_ready polls at most PollCeiling times, and a caller that has
\* used up the ceiling and still reads "loading" at lines 122 and 124 ends
\* with "not ready": not with the initialization error, not at a backend.
C8_Ceiling ==
    /\ [](\A t \in Threads :
            /\ polls[t] <= PollCeiling
            /\ pc[t] = "L119" => polls[t] < PollCeiling)
    /\ [][\A t \in Threads :
            (/\ polls[t] = PollCeiling
             /\ status = "loading"
             /\ pc[t] \in {"L122", "L124"}
             /\ pc'[t] # pc[t])
            => IF pc[t] = "L122"
               THEN pc'[t] = "L124"
               ELSE pc'[t] = "idle" /\ result'[t] = "notready"]_vars

C8_Witness ==
    \E t \in Threads :
        /\ result[t] = "notready"
        /\ polls[t] = PollCeiling
        /\ entry[t] = "loading"
        /\ status = "loading"

\* C9: at most one thread is inside tts_to_file, and it holds the lock; a
\* thread reading status, is_ready, error or backend can always take its
\* step, whoever holds the lock.
C9_SerializedSynthesis ==
    /\ Cardinality({t \in Threads : pc[t] = "L160"}) <= 1
    /\ \A t \in Threads : pc[t] = "L160" => lock = t
    /\ \A t \in Threads :
          /\ pc[t] = "S65" => ENABLED ReadStatus(t)
          /\ pc[t] = "S66" => ENABLED ReadIsReady(t)
          /\ pc[t] = "S67" => ENABLED ReadError(t)
          /\ pc[t] = "S68" => ENABLED ReadBackend(t)

C9_Witness ==
    \E t, u \in Threads :
        /\ pc[t] = "L160"
        /\ pc[u] = "L159"
        /\ ReadyPrimary

\* ------------------------------------------------------- audio properties
\* stage s has run in this call
Applied(s) == \E i \in DOMAIN stages : stages[i] = s
Count(s) == Cardinality({i \in DOMAIN stages : stages[i] = s})

\* C10: the buffer apply_mood writes has peak magnitude at most 0.98.
C10_OutputPeak ==
    a_pc = "done" => PeakOf(out_y) <= 9800

\* C11: whatever the input rate, the file written by apply_mood, by
\* normalize_wav and by the fallback synthesis path has rate 44100, and the
\* buffer was resampled (once) exactly when the input rate was not 44100.
C11_OutputRate ==
    a_pc = "done" =>
        /\ out_sr = 44100
        /\ Applied("resample") <=> req.sr # 44100
        /\ Count("resample") <= 1

C11_Witness ==
    /\ a_pc = "done"
    /\ req.fn = "_generate_espeak"
    /\ req.sr = 22050
    /\ out_sr = 44100
    /\ Applied("resample")

\* the intensity after max(1, min(5, intensity))
Clamped == Max(1, Min(5, req.intensity))
\* the lines of apply_mood after the soft-clip stage
AfterSoftClip == {"L109", "L114", "L119", "done"}

\* C12: apply_mood runs the soft-clip stage exactly when the mood is "angry"
\* and the clamped intensity is at least 2 (never for another or an unknown
\* mood, never at factor <= 0.2); the stage maps every sample v to
\* tanh(v / c) * c with c = 0.85 - 0.15 * factor, so no sample leaves it above
\* c, which is 0.70 at intensity 5.
C12_SoftClipIff ==
    /\ [](a_pc \in AfterSoftClip =>
            (Applied("soft_clip") <=> (req.mood = "angry" /\ Clamped >= 2)))
    /\ [][(a_pc = "L103" /\ a_pc' = "L109" /\ stages' # stages) =>
            LET c == 8500 - 375 * (Clamped - 1)
            IN  /\ y' = [i \in 1 .. Len(y) |-> SoftClipSample(y[i], c)]
                /\ PeakOf(y') <= c
                /\ Clamped = 5 => PeakOf(y') <= 7000]_vars

C12_Witness ==
    /\ a_pc = "done"
    /\ req.mood = "angry"
    /\ req.intensity = 5
    /\ req.sr = 44100
    /\ Applied("soft_clip")
    /\ PeakOf(out_y) > 0
    /\ PeakOf(out_y) <= 7000

\* what resampling to 44100 and the 16-bit write make of the buffer q
Converted(q) ==
    LET r == IF req.sr = 44100 THEN q ELSE Resample(q, req.sr, 44100)
    IN  [i \in 1 .. Len(r) |-> Pcm16(r[i])]
\* an apply_mood call with mood "normal" or an unknown mood has returned
NormalDone ==
    /\ a_pc = "done"
    /\ req.fn = "apply_mood"
    /\ req.mood \notin {"upbeat", "angry", "excited"}
\* its derived parameters are neutral and its effect stages were skipped
NeutralParams ==
    /\ mood = "normal"
    /\ PitchSteps(mood, factor) = 0
    /\ SpeedRate(mood, factor) = One
    /\ GainLin(mood, factor) = One
    /\ ~Applied("pitch_shift")
    /\ ~Applied("time_stretch")
    /\ ~Applied("soft_clip")

\* C13 as stated: for mood "normal" or an unknown mood name, at every
\* intensity, pitchSteps = 0, speedRate = 1, gainLinear = 1, the pitch-shift,
\* time-stretch and soft-clip stages are skipped and the samples written are
\* the input samples, but for resampling and format conversion, for every
\* input buffer.
C13_NormalUnchanged ==
    NormalDone => (NeutralParams /\ out_y = Converted(req.y))

\* C13 amended: the same, the samples written being the input samples for
\* every input buffer of peak at most 0.98; a louder buffer is scaled to
\* peak 0.95 by the peak-safety normalization (line 111) before conversion.
C13_NormalUnchangedUpToPeak ==
    NormalDone =>
        /\ NeutralParams
        /\ PeakOf(req.y) <= 9800 => out_y = Converted(req.y)
        /\ PeakOf(req.y) > 9800 =>
               out_y = Converted(Scale(req.y, 9500, PeakOf(req.y)))

C13_Witness ==
    /\ NormalDone
    /\ req.mood = "calm"
    /\ req.intensity = 6
    /\ req.sr = 22050
    /\ PeakOf(req.y) = 9800
    /\ Len(out_y) = 2 * Len(req.y)
    /\ out_y = Converted(req.y)

\* C14: for every integer intensity, in range or not, and every mood, the
\* call goes on (nothing is rejected) with factor = (clamp(intensity,1,5)-1)/4,
\* which lies in [0, 1] and is non-decreasing in the intensity.
C14_FactorRange ==
    (req.fn = "apply_mood" /\ a_pc # "L80") =>
        /\ a_pc \in {"L89", "L94", "L99", "L103", "L109", "L114", "L119", "done"}
        /\ factor >= 0
        /\ factor <= One
        /\ factor = CASE req.intensity <= 1 -> 0
                      [] req.intensity >= 5 -> One
                      [] OTHER -> (req.intensity - 1) * 2500
        /\ \A j \in Intensities :
              /\ j <= req.intensity => Factor(j) <= factor
              /\ j >= req.intensity => Factor(j) >= factor

C14_Witness ==
    /\ a_pc = "done"
    /\ req.fn = "apply_mood"
    /\ req.intensity = 6
    /\ req.mood = "excited"
    /\ factor = One

\* 10 ** (gain_max * factor / 20) to four decimals, by mood and clamped
\* intensity
GainExpected ==
    [normal  |-> <<10000, 10000, 10000, 10000, 10000>>,
     upbeat  |-> <<10000, 10441, 10902, 11383, 11885>>,
     angry   |-> <<10000, 10902, 11885, 12957, 14125>>,
     excited |-> <<10000, 10593, 11220, 11885, 12589>>]

\* an apply_mood call has derived its parameters
Derived == req.fn = "apply_mood" /\ a_pc # "L80"

\* the derived parameters follow the three formulas, the power of ten up to
\* 0.0002; a stage guarded by a parameter has run exactly when its guard says
FormulasHold ==
    Derived =>
        /\ 4 * PitchSteps(mood, factor) = MOOD_PARAMS[mood][1] * (Clamped - 1)
        /\ 4 * (SpeedRate(mood, factor) - One)
              = (MOOD_PARAMS[mood][2] - One) * (Clamped - 1)
        /\ Abs(GainLin(mood, factor) - GainExpected[mood][Clamped]) <= 2
        /\ a_pc \notin {"L89"} =>
              (Applied("pitch_shift")
                  <=> Abs(MOOD_PARAMS[mood][1] * (Clamped - 1)) > 4 * 100)
        /\ a_pc \notin {"L89", "L94"} =>
              (Applied("time_stretch")
                  <=> Abs((MOOD_PARAMS[mood][2] - One) * (Clamped - 1)) > 4 * 50)

UpbeatThree == Derived /\ req.mood = "upbeat" /\ req.intensity = 3

\* C15 as stated: the derived parameters are pitch_max * factor,
\* 1 + (speed_max - 1) * factor and 10 ** (gain_max * factor / 20); for
\* "upbeat" at intensity 3: factor 0.5, 1.25 semitones, rate 1.09 and a
\* linear gain of about 1.19.
C15_DerivedParameters ==
    /\ FormulasHold
    /\ UpbeatThree =>
          /\ factor = 5000
          /\ PitchSteps(mood, factor) = 12500
          /\ SpeedRate(mood, factor) = 10900
          /\ Abs(GainLin(mood, factor) - 11900) <= 50

\* C15 amended: the same with a linear gain of about 1.09 for "upbeat" at
\* intensity 3 (0.75 dB), and the gain stage multiplies every
\* sample by that gain.
C15_DerivedParametersGain109 ==
    /\ [](/\ FormulasHold
          /\ UpbeatThree =>
                /\ factor = 5000
                /\ PitchSteps(mood, factor) = 12500
                /\ SpeedRate(mood, factor) = 10900
                /\ Abs(GainLin(mood, factor) - 10900) <= 50)
    /\ [][(a_pc = "L99" /\ a_pc' = "L103") =>
            \E g \in GainExpected[mood][Clamped] - 2
                        .. GainExpected[mood][Clamped] + 2 :
                y' = Scale(y, g, One)]_vars

C15_Witness ==
    /\ UpbeatThree
    /\ a_pc = "done"
    /\ Applied("pitch_shift")
    /\ Applied("time_stretch")
    /\ GainLin(mood, factor) = 10902
    /\ PeakOf(out_y) > 0

\* the place of each stage in the body of apply_mood
Rank(s) ==
    CASE s = "pitch_shift" -> 1
      [] s = "time_stretch" -> 2
      [] s = "gain" -> 3
      [] s = "soft_clip" -> 4
      [] s = "normalize" -> 5
      [] s = "resample" -> 6
      [] s = "write" -> 7
\* stage a ran, and before every run of stage b
Precedes(a, b) ==
    /\ Applied(a)
    /\ \A i, j \in DOMAIN stages :
          (stages[i] = a /\ stages[j] = b) => i < j
\* after the last normalization only resampling and the write ran
NormalizeIsLast ==
    \A i, j \in DOMAIN stages :
        (stages[i] = "normalize" /\ i < j /\ stages[j] # "normalize")
            => stages[j] \in {"resample", "write"}
MoodDone == a_pc = "done" /\ req.fn = "apply_mood"

\* C16 as stated: every apply_mood call runs Normalize, PitchShift,
\* TimeStretch, GainAdjust, (SoftClip), Normalize, Resample in this order: a
\* normalization precedes the pitch shift, the gain comes after the
\* time-stretch and before the soft-clip, and the peak-safety normalization is
\* followed only by resampling and the write.
C16_StageOrder ==
    MoodDone =>
        /\ Applied("pitch_shift") => Precedes("normalize", "pitch_shift")
        /\ Applied("time_stretch") => Precedes("time_stretch", "gain")
        /\ Applied("soft_clip") => Precedes("gain", "soft_clip")
        /\ NormalizeIsLast

\* C16 amended: every apply_mood call runs PitchShift, TimeStretch,
\* GainAdjust, (SoftClip), Normalize, Resample in this order, each at most
\* once, with no normalization before the gain; the gain always runs, after
\* the time-stretch and before the soft-clip, and the peak-safety
\* normalization is followed only by resampling and the write.
C16_StageOrderFromPitchShift ==
    req.fn = "apply_mood" =>
        /\ \A i, j \in DOMAIN stages :
              i < j => Rank(stages[i]) < Rank(stages[j])
        /\ Applied("normalize") => Precedes("gain", "normalize")
        /\ Applied("time_stretch") /\ Applied("gain")
              => Precedes("time_stretch", "gain")
        /\ Applied("soft_clip") => Precedes("gain", "soft_clip")
        /\ NormalizeIsLast
        /\ a_pc \in {"L80", "L89", "L94", "L99"} <=> ~Applied("gain")
        /\ a_pc = "done" <=> Applied("write")

C16_Witness ==
    /\ MoodDone
    /\ stages = <<"pitch_shift", "time_stretch", "gain", "normalize",
                  "resample", "write">>

\* the buffer q of the request at 44100 Hz
Resampled(q) == IF req.sr = 44100 THEN q ELSE Resample(q, req.sr, 44100)
\* a normalize_wav call or the post-processing of _generate_espeak is over
ReducedDone == a_pc = "done" /\ req.fn \in {"normalize_wav", "_generate_espeak"}

\* C19: normalize_wav and the fallback synthesis path scale every non-silent
\* input so that the peak written is the target, 0.9 resp. 0.85, the peak
\* being measured on the resampled buffer; an all-zero input is written
\* unscaled, as zeros, and the call returns all the same.
C19_ReducedPeak ==
    /\ req.fn \in {"normalize_wav", "_generate_espeak"} /\ Applied("normalize")
          => stages[1] = IF req.sr = 44100 THEN "normalize" ELSE "resample"
    /\ ReducedDone =>
          /\ PeakOf(req.y) > 0 =>
                /\ PeakOf(out_y) = IF req.fn = "normalize_wav" THEN 9000
                                   ELSE 8500
                /\ out_y = Scale(Resampled(req.y), PeakOf(out_y),
                                 PeakOf(Resampled(req.y)))
                /\ Applied("normalize")
          /\ PeakOf(req.y) = 0 =>
                /\ PeakOf(out_y) = 0
                /\ ~Applied("normalize")
                /\ Len(out_y) = Len(Converted(req.y))

C19_Witness ==
    /\ ReducedDone
    /\ req.fn = "normalize_wav"
    /\ req.sr = 22050
    /\ PeakOf(req.y) = 9800
    /\ PeakOf(y) = 9000
    /\ stages = <<"resample", "normalize", "write">>
    /\ \E i \in DOMAIN out_y : i % 2 = 0 /\ Abs(out_y[i]) = 9000

\* ------------------------------------------------------- engine snapshots
\* the legal BackendState values, as (status, backend, error)
LegalState(s, b, e) ==
    \/ s = "idle" /\ b = "none" /\ e = None
    \/ s = "loading" /\ b = "none" /\ e = None
    \/ s = "ready" /\ b = "xtts" /\ e = None
    \/ s = "ready" /\ b = "espeak" /\ e # None
    \/ s = "error" /\ b = "none" /\ e # None

\* C17: every snapshot get_status has read through status, is_ready, error
\* and backend, at any point of any interleaving with the load attempt, is a
\* legal state: (idle, none, no error), (loading, none, no error),
\* (ready, xtts, no error), (ready, espeak, error) or (error, none, error);
\* is_ready implies a backend other than "none", and backend "xtts" implies a
\* loaded model handle.
C17_LegalSnapshots ==
    \A t \in Threads :
        result[t] = "snapshot" =>
            /\ LegalState(snap[t].model_status, snap[t].backend,
                          snap[t].model_error)
            /\ snap[t].model_ready = "true" => snap[t].backend # "none"
            /\ snap[t].backend = "xtts" => tts # None

\* C18: once _load_model has been entered in status idle (from
\* initialize_async or from ensure_ready), and whenever the status is
\* "loading", the status eventually is "ready" or "error"; the lock is not
\* held while TTS(MODEL_NAME) is constructed or the fallback is probed.
C18_LoadTerminates ==
    /\ [](\A t \in Threads : pc[t] \in {"L92", "L100"} => lock # t)
    /\ (\/ status = "loading"
        \/ \E t \in Threads : pc[t] = "L84" /\ status = "idle")
          ~> (status \in {"ready", "error"})

C18_Witness ==
    \E t, u \in Threads :
        /\ result[t] = "returned"
        /\ outcome = "nofallback"
        /\ status = "error"
        /\ entry[u] = "loading"
        /\ result[u] = "initfail"

\* ------------------------------------------------------ voice bank properties
\* the stored list holds a record with this id
Stored(vid) == file.ok /\ Find(file.voices, vid) # 0
StoredVoice(vid) == file.voices[Find(file.voices, vid)]
\* no call is running
Quiet == \A t \in BankThreads : b_pc[t] = "idle"

\* C20: whatever the interleaving of add_voice, update_voice and delete_voice
\* calls, once they have returned: every voice whose add_voice returned and
\* that delete_voice was never called with is in the stored list; the fields
\* set by a completed update_voice, the only update of its voice, are in the
\* stored record; and no voice whose delete_voice returned True is stored.
C20_NoLostUpdates ==
    Quiet =>
        /\ \A v \in added \ delcalled : Stored(v)
        /\ \A u \in upddone :
              (u[1] \notin delcalled /\ updcalled[u[1]] = 1 /\ Stored(u[1]))
                  => \A k \in DOMAIN u[2] \cap allowed :
                         StoredVoice(u[1])[k] = u[2][k]
        /\ \A v \in deleted : ~Stored(v)

\* the list `after` is the list `before` but for allowed fields of the
\* record with id vid
FrameKept(before, after, vid) ==
    /\ Len(after) = Len(before)
    /\ \A i \in DOMAIN before :
          /\ \A k \in DOMAIN before[i] \ allowed : after[i][k] = before[i][k]
          /\ before[i].id # vid => after[i] = before[i]

\* C21: update_voice(id, **fields) changes only the name, gender, language
\* and description of the stored record with that id: the list it writes
\* is the stored list with the same number of records, every id,
\* reference_file and created_at as stored and every other record as stored;
\* for an id it does not find it returns None and writes nothing.
C21_UpdateFrame ==
    [][\A t \in BankThreads :
          b_op[t].fn = "update_voice" =>
              /\ (b_pc[t] = "V92" /\ b_pc'[t] = "idle") =>
                    /\ b_result'[t] = "None"
                    /\ Find(Load(file), b_op[t].id) = 0
                    /\ file' = file
                    /\ refs' = refs
              /\ (b_pc[t] = "V39" /\ b_pc'[t] = "V39w" /\ file.ok) =>
                    FrameKept(file.voices, data[t], b_op[t].id)
              /\ (b_pc[t] = "V39w" /\ b_pc'[t] = "idle") =>
                    /\ b_result'[t] = "voice"
                    /\ file' = Written(data[t])
                    /\ refs' = refs]_vars

====
